---------------------------- MODULE Spec2Model ----------------------------
(***************************************************************************)
(* Model of the thermistor module (src/src/thermistor.c, thermistor.h).    *)
(*                                                                         *)
(* Numbers.  The C code computes in float32.  The model uses fixed point:  *)
(*   resistance   in centi-ohm   (1 Ohm  = 100),                           *)
(*   temperature  in centi-degC  (1 degC = 100),                           *)
(*   cutoff       in Hz (integer).                                         *)
(* Every formula is computed the way the source computes it, in integer    *)
(* arithmetic with the rounding stated at the operator.                    *)
(***************************************************************************)
EXTENDS Integers, Sequences, FiniteSets, TLC

-----------------------------------------------------------------------------
(* Enumerations of thermistor.h *)

eTH_OK == 0
eTH_ERROR == 1
eTH_ERROR_OPEN == 2
eTH_ERROR_SHORT == 4

th_status_t == {eTH_OK, eTH_ERROR, eTH_ERROR_OPEN, eTH_ERROR_SHORT}

th_err_type_t == {"eTH_ERR_FLOATING", "eTH_ERR_PERMANENT"}

th_temp_type_t == {"eTH_TYPE_NTC", "eTH_TYPE_PT1000", "eTH_TYPE_PT100", "eTH_TYPE_PT500"}

th_hw_conn_t == {"eTH_HW_LOW_SIDE", "eTH_HW_HIGH_SIDE"}

th_hw_pull_t == {"eTH_HW_PULL_DOWN", "eTH_HW_PULL_UP", "eTH_HW_PULL_BOTH"}

-----------------------------------------------------------------------------
(* Constants of thermistor.c, in the model's fixed point *)

\* PT100/500/1000 resistance limits, centi-ohm
TH_PT1000_MAX_OHM == 390481
TH_PT1000_MIN_OHM == 18520
TH_PT100_MAX_OHM == 39048
TH_PT100_MIN_OHM == 1852
TH_PT500_MAX_OHM == 193774
TH_PT500_MIN_OHM == 11413

\* NTC limits of th_calc_resistance: 1.0f and 10e6f, centi-ohm
TH_NTC_MIN_OHM == 100
TH_NTC_MAX_OHM == 1000000000

\* th_calc_res_single_pull: 1e6f (ADC ratio above 1, low side), centi-ohm
TH_RES_VERY_HIGH == 100000000

\* DIN EN60751 factors: A * 1e7, A*A * 1e14, -4B * 1e14, -2B * 1e7 * 100
TH_PT_DIN_EN60751_A == 39083
TH_PT_DIN_EN60751_AA == 1527480889
TH_PT_DIN_EN60751_4B == 231000000
TH_PT_DIN_EN60751_2B == 1155

\* TH_NTC_25DEG_FACTOR = 1/298.15: 298.15 K in centi-kelvin; 273.15f in centi-kelvin
TH_NTC_25DEG_CK == 29815
TH_KELVIN_OFFSET == 27315

\* Largest magnitude the fixed point carries (float32 carries far more); it lies
\* outside every limit of th_calc_resistance, so limiting treats it like the
\* float value it stands for
F32_SAT == 2000000000

\* ADC collaborator: adc_get_raw_max() (12-bit converter) and the uint16_t range
ADC_RAW_MAX == 4095
UINT16_MAX == 65535

\* Filter collaborator: 1 / (2*pi*TH_HNDL_PERIOD_S) in Hz, so that the RC filter's
\* smoothing factor is alpha = fc / (fc + LPF_FC_UNIT)
LPF_FC_UNIT == 1

-----------------------------------------------------------------------------
(* Arithmetic helpers: what the float expressions of the source compute *)

\* A magnitude beyond what the fixed point carries
Sat(x) == IF x > F32_SAT THEN F32_SAT ELSE x

\* x * m / d for x >= 0, m >= 0, d > 0, without leaving 32 bits; saturates at F32_SAT
MulDiv(x, m, d) ==
    IF (x \div d) >= F32_SAT \div (m + 1)
    THEN F32_SAT
    ELSE (x \div d) * m + ((x % d) * m) \div d

\* floor(sqrt(n)) by bisection on lo..hi (invariant lo*lo <= n < (hi+1)*(hi+1))
RECURSIVE SqrtBisect(_, _, _)
SqrtBisect(n, lo, hi) ==
    IF lo >= hi
    THEN lo
    ELSE LET mid == (lo + hi + 1) \div 2
         IN  IF mid * mid <= n
             THEN SqrtBisect(n, mid, hi)
             ELSE SqrtBisect(n, lo, mid - 1)

\* sqrtf(n) for 0 <= n < 2^31 with one more decimal digit: floor(10 * sqrt(n))
sqrtf(n) ==
    LET s == SqrtBisect(n, 0, 46340)
        r == 100 * (n - s * s)
        d == CHOOSE k \in 0..9 :
                /\ 20 * s * k + k * k <= r
                /\ (k = 9 \/ 20 * s * (k + 1) + (k + 1) * (k + 1) > r)
    IN  10 * s + d

\* n = m * 2^k with 65536 <= m < 131072 (m truncated when n is halved)
RECURSIVE LogNorm(_, _)
LogNorm(n, k) ==
    IF n >= 131072
    THEN LogNorm(n \div 2, k + 1)
    ELSE IF n < 65536
         THEN LogNorm(2 * n, k - 1)
         ELSE [m |-> n, k |-> k]

\* log(n) * 1e4 for an integer n >= 1: k*ln(2) + 2*atanh((m-1)/(m+1)), 3 terms
log(n) ==
    LET nk == LogNorm(n, 16)
        z  == ((nk.m - 65536) * 10000) \div (nk.m + 65536)
        z3 == (((z * z) \div 10000) * z) \div 10000
        z5 == (((z3 * z) \div 10000) * z) \div 10000
    IN  (nk.k * 69315) \div 10 + 2 * (z + z3 \div 3 + z5 \div 5)

-----------------------------------------------------------------------------
(* Resistance to temperature *)

\* th_limit_f32
th_limit_f32(in, min, max) ==
    IF in > max THEN max
    ELSE IF in < min THEN min
    ELSE in

\* th_calc_ntc_temperature: 1 / (1/298.15 + (1/beta) * log(rth/rth_nom)) - 273.15
\*   = 298.15 * beta / (beta + 298.15 * log(rth/rth_nom)) - 273.15
\* rth, rth_nom in centi-ohm (> 0), beta in K; result in centi-degC
th_calc_ntc_temperature(rth, beta, rth_nom) ==
    LET l   == log(rth) - log(rth_nom)
        den == 10 * beta + (TH_NTC_25DEG_CK * (l \div 10)) \div 10000
    IN  IF den = 0
        THEN F32_SAT
        ELSE (TH_NTC_25DEG_CK * (10 * beta)) \div den - TH_KELVIN_OFFSET

\* ( -A + sqrtf( AA - 4B * ( 1 - rth / r0 ))) / 2B, r0 the nominal resistance
pt_din_en60751(rth, r0) ==
    LET rad == TH_PT_DIN_EN60751_AA + (TH_PT_DIN_EN60751_4B \div r0) * (r0 - rth)
    IN  ((10 * TH_PT_DIN_EN60751_A - sqrtf(rad)) * 1000) \div TH_PT_DIN_EN60751_2B

\* th_calc_pt100_temperature (100.0f)
th_calc_pt100_temperature(rth) == pt_din_en60751(rth, 10000)

\* th_calc_pt500_temperature with the nominal resistance of a PT1000
th_calc_pt500_temperature_r1000(rth) == pt_din_en60751(rth, 100000)

\* th_calc_pt500_temperature (500.0f)
th_calc_pt500_temperature(rth) == pt_din_en60751(rth, 50000)

\* th_calc_pt1000_temperature (1000.0f)
th_calc_pt1000_temperature(rth) == pt_din_en60751(rth, 100000)

-----------------------------------------------------------------------------
(* Configuration: thermistor_cfg (th_cfg_t tables returned by th_cfg_get_table) *)

\* Number of thermistor channels (th_ch_t enumeration)
eTH_NUM_OF == 2

th_ch_t == 0..(eTH_NUM_OF - 1)

\* The null table pointer: a table with no entry
NULL == <<>>

\* One th_cfg_t entry: 10 kOhm pull resistors, NTC beta 3380 K / 10 kOhm nominal
Cfg(type, conn, pull_mode, lpf_fc, min, max, err_type) ==
    [ hw       |-> [conn |-> conn, pull_mode |-> pull_mode,
                    pull_up |-> 1000000, pull_down |-> 1000000],
      lpf_fc   |-> lpf_fc,
      type     |-> type,
      ntc      |-> [beta |-> 3380, nom_val |-> 1000000],
      range    |-> [min |-> min, max |-> max],
      err_type |-> err_type ]

\* ch 0: NTC on the low side, floating, -100..300 degC;
\* others: PT1000 on the high side, permanent, -50..200 degC
CfgTableA ==
    [th \in th_ch_t |->
        IF th = 0
        THEN Cfg("eTH_TYPE_NTC", "eTH_HW_LOW_SIDE", "eTH_HW_PULL_UP", 1,
                 -10000, 30000, "eTH_ERR_FLOATING")
        ELSE Cfg("eTH_TYPE_PT1000", "eTH_HW_HIGH_SIDE", "eTH_HW_PULL_DOWN", 1,
                 -5000, 20000, "eTH_ERR_PERMANENT")]

\* ch 0: PT100 on the low side with both pulls, floating, -250..200 degC;
\* others: NTC on the low side, permanent, range.min = T(1 MOhm), range.max = 125 degC
CfgTableB ==
    [th \in th_ch_t |->
        IF th = 0
        THEN Cfg("eTH_TYPE_PT100", "eTH_HW_LOW_SIDE", "eTH_HW_PULL_BOTH", 1,
                 -25000, 20000, "eTH_ERR_FLOATING")
        ELSE Cfg("eTH_TYPE_NTC", "eTH_HW_LOW_SIDE", "eTH_HW_PULL_UP", 1,
                 th_calc_ntc_temperature(TH_RES_VERY_HIGH, 3380, 1000000), 12500,
                 "eTH_ERR_PERMANENT")]

\* ch 0: PT500 on the low side, floating, -50..200 degC;
\* others: NTC on the high side with both pulls, permanent, range.max = T(1 Ohm)
CfgTableC ==
    [th \in th_ch_t |->
        IF th = 0
        THEN Cfg("eTH_TYPE_PT500", "eTH_HW_LOW_SIDE", "eTH_HW_PULL_UP", 1,
                 -5000, 20000, "eTH_ERR_FLOATING")
        ELSE Cfg("eTH_TYPE_NTC", "eTH_HW_HIGH_SIDE", "eTH_HW_PULL_BOTH", 1,
                 -4000, th_calc_ntc_temperature(TH_NTC_MIN_OHM, 3380, 1000000),
                 "eTH_ERR_PERMANENT")]

\* ch 0: NTC on the low side, permanent, -40..125 degC;
\* others: PT1000 on the high side with both pulls, floating, -50..200 degC
CfgTableD ==
    [th \in th_ch_t |->
        IF th = 0
        THEN Cfg("eTH_TYPE_NTC", "eTH_HW_LOW_SIDE", "eTH_HW_PULL_UP", 1,
                 -4000, 12500, "eTH_ERR_PERMANENT")
        ELSE Cfg("eTH_TYPE_PT1000", "eTH_HW_HIGH_SIDE", "eTH_HW_PULL_BOTH", 1,
                 -5000, 20000, "eTH_ERR_FLOATING")]

ValidCfgTables == {CfgTableA, CfgTableB, CfgTableC, CfgTableD}

\* The ways one entry can be wrong
BadEntries(e) ==
    { [e EXCEPT !.hw.conn = "eTH_HW_LOW_SIDE", !.hw.pull_mode = "eTH_HW_PULL_DOWN"],
      [e EXCEPT !.hw.conn = "eTH_HW_HIGH_SIDE", !.hw.pull_mode = "eTH_HW_PULL_UP"],
      [e EXCEPT !.lpf_fc = 0],
      [e EXCEPT !.lpf_fc = -1],
      [e EXCEPT !.range.max = e.range.min],
      [e EXCEPT !.range.max = e.range.min - 1] }

\* A valid table with the entry at one index replaced by a wrong one
InvalidCfgTables ==
    { [CfgTableA EXCEPT ![th] = bad] :
        th \in th_ch_t, bad \in BadEntries(CfgTableA[0]) \cup BadEntries(CfgTableA[1]) }

\* What th_cfg_get_table() can return
CfgTables == ValidCfgTables \cup InvalidCfgTables \cup {NULL}

-----------------------------------------------------------------------------
(* Bounds of the model *)

\* th_hndl ticks per behaviour
MaxTicks == 2

\* Raw ADC codes the converter delivers (uint16_t)
AdcCodes == {0, ADC_RAW_MAX \div 2 - 1, ADC_RAW_MAX, UINT16_MAX}

\* Cutoff frequencies passed to th_set_lpf_fc
FcArgs == {-1, 0, 3}

\* Raw ADC codes the divider resolver is applied to on its own: the ends of the
\* uint16_t range, the codes around mid-scale and around adc_get_raw_max()
PureAdcCodes ==
    {0, 1, 2, 1023, ADC_RAW_MAX \div 2 - 1, ADC_RAW_MAX \div 2, 3071,
     ADC_RAW_MAX - 2, ADC_RAW_MAX - 1, ADC_RAW_MAX, ADC_RAW_MAX + 1, 32767,
     UINT16_MAX - 1, UINT16_MAX}

\* Resistances the RTD conversions are applied to on their own, in percent of
\* the nominal resistance (all within the limits of the class)
RtdPercents == {19, 50, 100, 138, 200, 390}

-----------------------------------------------------------------------------
(* State *)

VARIABLES
    gb_is_init,     \* static bool gb_is_init
    gp_cfg_table,   \* static const th_cfg_t * gp_cfg_table
    g_th_data,      \* static th_data_t g_th_data[eTH_NUM_OF]
    cfg_table,      \* the table th_cfg_get_table() returns (fixed at build time)
    TH_FILTER_EN,   \* build-time switch of thermistor_cfg.h (fixed at build time)
    ticks,          \* number of th_hndl ticks handled so far
    last            \* the last API call: its arguments, return value and output

vars == <<gb_is_init, gp_cfg_table, g_th_data, cfg_table, TH_FILTER_EN, ticks, last>>

state == <<gb_is_init, gp_cfg_table, g_th_data>>

\* p_filter_rc_t: NULL until filter_rc_init succeeds
LpfNull == [is_init |-> FALSE, fc |-> 0, y |-> 0]

\* th_data_t g_th_data[] = {0}
ThDataZero == [res |-> 0, temp |-> 0, temp_filt |-> 0, lpf |-> LpfNull, status |-> eTH_OK]

\* The record of an API call: its arguments (th, p_null: the output pointer is
\* NULL, fc), its return value and its output (meaningful when written is TRUE)
Call(op, th, p_null, fc, ret, written, out) ==
    [op |-> op, th |-> th, p_null |-> p_null, fc |-> fc, ret |-> ret,
     written |-> written, out |-> out, lpf_fail |-> eTH_NUM_OF]

\* The record of a call during which the filter collaborator did not return
\* eFILTER_OK for channel lpf_fail (eTH_NUM_OF: it returned eFILTER_OK throughout)
CallLpf(call, lpf_fail) == [call EXCEPT !.lpf_fail = lpf_fail]

\* The record of a th_init call; lpf_fail is the first channel whose
\* filter_rc_init did not return eFILTER_OK (eTH_NUM_OF: none did)
CallInit(ret, lpf_fail) ==
    CallLpf(Call("th_init", 0, FALSE, 0, ret, FALSE, 0), lpf_fail)

-----------------------------------------------------------------------------
(* Divider resolver and sensor model *)

\* adc_raw + 1U computed in a 16-bit unsigned type
adc_raw_plus_1U_u16(adc_raw) == (adc_raw + 1) % (UINT16_MAX + 1)

\* ( adc_raw + 1U ) of th_calc_res_single_pull: the uint16_t code is converted to
\* unsigned int, 32 bits wide on the targets of the library, which holds
\* UINT16_MAX + 1
adc_raw_plus_1U(adc_raw) == adc_raw + 1

\* th_calc_res_single_pull that resolves the divider where adc_ratio > 1:
\* pull_up / (adc_ratio - 1) = pull_up * den / (max - den), and
\* pull_down * (adc_ratio - 1) = pull_down * max / den - pull_down
th_calc_res_single_pull_gt1(p_cfg, th, adc_raw) ==
    LET max == ADC_RAW_MAX
        den == adc_raw + 1
    IN  IF p_cfg[th].hw.conn = "eTH_HW_LOW_SIDE"
        THEN IF max > den
             THEN MulDiv(p_cfg[th].hw.pull_up, den, max - den)
             ELSE TH_RES_VERY_HIGH
        ELSE IF max > den
             THEN Sat(MulDiv(p_cfg[th].hw.pull_down, max, den)) - p_cfg[th].hw.pull_down
             ELSE 0

\* th_calc_res_single_pull: adc_ratio = max / (adc_raw + 1U), kept as the pair
\* max, den.  adc_ratio < 1 iff max < den, and then
\*   pull_up / (adc_ratio - 1)   = -(pull_up + pull_up * max / (den - max))
\*   pull_down * (adc_ratio - 1) = -(pull_down - pull_down * max / den)
th_calc_res_single_pull(p_cfg, th, adc_raw) ==
    LET max == ADC_RAW_MAX
        den == adc_raw_plus_1U(adc_raw)
    IN  IF p_cfg[th].hw.conn = "eTH_HW_LOW_SIDE"
        THEN IF max < den
             THEN -Sat(p_cfg[th].hw.pull_up
                         + MulDiv(p_cfg[th].hw.pull_up, max, den - max))
             ELSE TH_RES_VERY_HIGH
        ELSE IF max < den
             THEN -(p_cfg[th].hw.pull_down - MulDiv(p_cfg[th].hw.pull_down, max, den))
             ELSE 0

\* th_calc_res_both_pull: not implemented in the source, returns 0.0f
th_calc_res_both_pull(th) == 0

\* th_calc_resistance that limits a PT1000 with the PT100 limits
th_calc_resistance_pt100_limits(p_cfg, th, adc_raw) ==
    LET th_res == IF p_cfg[th].hw.pull_mode \in {"eTH_HW_PULL_UP", "eTH_HW_PULL_DOWN"}
                  THEN th_calc_res_single_pull(p_cfg, th, adc_raw)
                  ELSE th_calc_res_both_pull(th)
    IN  CASE p_cfg[th].type = "eTH_TYPE_NTC" ->
                th_limit_f32(th_res, TH_NTC_MIN_OHM, TH_NTC_MAX_OHM)
          [] p_cfg[th].type = "eTH_TYPE_PT500" ->
                th_limit_f32(th_res, TH_PT500_MIN_OHM, TH_PT500_MAX_OHM)
          [] OTHER ->
                th_limit_f32(th_res, TH_PT100_MIN_OHM, TH_PT100_MAX_OHM)

\* th_calc_resistance
th_calc_resistance(p_cfg, th, adc_raw) ==
    LET th_res == IF p_cfg[th].hw.pull_mode \in {"eTH_HW_PULL_UP", "eTH_HW_PULL_DOWN"}
                  THEN th_calc_res_single_pull(p_cfg, th, adc_raw)
                  ELSE th_calc_res_both_pull(th)
    IN  CASE p_cfg[th].type = "eTH_TYPE_NTC" ->
                th_limit_f32(th_res, TH_NTC_MIN_OHM, TH_NTC_MAX_OHM)
          [] p_cfg[th].type = "eTH_TYPE_PT100" ->
                th_limit_f32(th_res, TH_PT100_MIN_OHM, TH_PT100_MAX_OHM)
          [] p_cfg[th].type = "eTH_TYPE_PT500" ->
                th_limit_f32(th_res, TH_PT500_MIN_OHM, TH_PT500_MAX_OHM)
          [] p_cfg[th].type = "eTH_TYPE_PT1000" ->
                th_limit_f32(th_res, TH_PT1000_MIN_OHM, TH_PT1000_MAX_OHM)
          [] OTHER -> 0

\* th_calc_temperature: stores the resistance and returns the temperature; here
\* the pair of both
th_calc_temperature(p_cfg, th, adc_raw) ==
    LET res == th_calc_resistance(p_cfg, th, adc_raw)
    IN  [ res  |-> res,
          temp |-> CASE p_cfg[th].type = "eTH_TYPE_NTC" ->
                        th_calc_ntc_temperature(res, p_cfg[th].ntc.beta,
                                                p_cfg[th].ntc.nom_val)
                     [] p_cfg[th].type = "eTH_TYPE_PT1000" ->
                        th_calc_pt1000_temperature(res)
                     [] p_cfg[th].type = "eTH_TYPE_PT100" ->
                        th_calc_pt100_temperature(res)
                     [] p_cfg[th].type = "eTH_TYPE_PT500" ->
                        th_calc_pt500_temperature(res)
                     [] OTHER -> 0 ]

\* What th_calc_temperature delivers for channel th over the ADC codes of the
\* model: adc_get_raw is free to return any of them
th_readings(p_cfg, th) ==
    {th_calc_temperature(p_cfg, th, adc_raw) : adc_raw \in AdcCodes}

-----------------------------------------------------------------------------
(* Low pass filter collaborator (first order RC), as the module uses it *)

\* filter_rc_init( &lpf, fc, fs, 1, init_value ) that returns eFILTER_OK
filter_rc_init(fc, init_value) == [is_init |-> TRUE, fc |-> fc, y |-> init_value]

\* filter_rc_hndl( lpf, x, &y ): y += alpha * ( x - y ), alpha = fc / (fc + LPF_FC_UNIT)
filter_rc_hndl(lpf, x) ==
    [lpf EXCEPT !.y = lpf.y + ((x - lpf.y) * lpf.fc) \div (lpf.fc + LPF_FC_UNIT)]

\* filter_rc_fc_set( lpf, fc )
filter_rc_fc_set(lpf, fc) == [lpf EXCEPT !.fc = fc]

\* th_init_filter that starts the filter from 0 instead of the temperature
th_init_filter_zero(p_cfg, data, th, lpf_ok) ==
    IF TH_FILTER_EN = 1
    THEN IF lpf_ok
         THEN [status |-> eTH_OK, lpf |-> filter_rc_init(p_cfg[th].lpf_fc, 0)]
         ELSE [status |-> eTH_ERROR, lpf |-> data[th].lpf]
    ELSE [status |-> eTH_OK, lpf |-> data[th].lpf]

\* th_init_filter: lpf_ok is the collaborator's answer (eFILTER_OK or not)
th_init_filter(p_cfg, data, th, lpf_ok) ==
    IF TH_FILTER_EN = 1
    THEN IF lpf_ok
         THEN [status |-> eTH_OK,
               lpf    |-> filter_rc_init(p_cfg[th].lpf_fc, data[th].temp)]
         ELSE [status |-> eTH_ERROR, lpf |-> data[th].lpf]
    ELSE [status |-> eTH_OK, lpf |-> data[th].lpf]

-----------------------------------------------------------------------------
(* Fault classifier *)

\* th_status_hndl that reports a temperature above the range as eTH_ERROR
th_status_hndl_generic(p_cfg, data, th, temp) ==
    IF \/ p_cfg[th].err_type = "eTH_ERR_FLOATING"
       \/ (p_cfg[th].err_type = "eTH_ERR_PERMANENT" /\ data[th].status = eTH_OK)
    THEN IF temp > p_cfg[th].range.max
         THEN eTH_ERROR
         ELSE IF temp < p_cfg[th].range.min
              THEN IF p_cfg[th].type = "eTH_TYPE_NTC" THEN eTH_ERROR_OPEN ELSE eTH_ERROR_SHORT
              ELSE eTH_OK
    ELSE eTH_OK

\* th_status_hndl that classifies only while the status is OK, whatever the
\* error type
th_status_hndl_latch_all(p_cfg, data, th, temp) ==
    IF data[th].status = eTH_OK
    THEN IF temp > p_cfg[th].range.max
         THEN IF p_cfg[th].type = "eTH_TYPE_NTC" THEN eTH_ERROR_SHORT ELSE eTH_ERROR_OPEN
         ELSE IF temp < p_cfg[th].range.min
              THEN IF p_cfg[th].type = "eTH_TYPE_NTC" THEN eTH_ERROR_OPEN ELSE eTH_ERROR_SHORT
              ELSE eTH_OK
    ELSE eTH_OK

\* th_status_hndl that compares with >= and <=
th_status_hndl_closed(p_cfg, data, th, temp) ==
    IF \/ p_cfg[th].err_type = "eTH_ERR_FLOATING"
       \/ (p_cfg[th].err_type = "eTH_ERR_PERMANENT" /\ data[th].status = eTH_OK)
    THEN IF temp >= p_cfg[th].range.max
         THEN IF p_cfg[th].type = "eTH_TYPE_NTC" THEN eTH_ERROR_SHORT ELSE eTH_ERROR_OPEN
         ELSE IF temp <= p_cfg[th].range.min
              THEN IF p_cfg[th].type = "eTH_TYPE_NTC" THEN eTH_ERROR_OPEN ELSE eTH_ERROR_SHORT
              ELSE eTH_OK
    ELSE eTH_OK

\* th_status_hndl
th_status_hndl(p_cfg, data, th, temp) ==
    IF \/ p_cfg[th].err_type = "eTH_ERR_FLOATING"
       \/ (p_cfg[th].err_type = "eTH_ERR_PERMANENT" /\ data[th].status = eTH_OK)
    THEN IF temp > p_cfg[th].range.max
         THEN CASE p_cfg[th].type = "eTH_TYPE_NTC" -> eTH_ERROR_SHORT
                [] p_cfg[th].type \in {"eTH_TYPE_PT1000", "eTH_TYPE_PT100",
                                       "eTH_TYPE_PT500"} -> eTH_ERROR_OPEN
                [] OTHER -> eTH_OK
         ELSE IF temp < p_cfg[th].range.min
              THEN CASE p_cfg[th].type = "eTH_TYPE_NTC" -> eTH_ERROR_OPEN
                     [] p_cfg[th].type \in {"eTH_TYPE_PT1000", "eTH_TYPE_PT100",
                                            "eTH_TYPE_PT500"} -> eTH_ERROR_SHORT
                     [] OTHER -> eTH_OK
              ELSE eTH_OK
    ELSE eTH_OK

-----------------------------------------------------------------------------
(* Configuration check *)

\* The condition of th_check_cfg_table with range.max >= range.min
th_check_cfg_entry_ge(p_cfg, th) ==
    /\ p_cfg[th].lpf_fc > 0
    /\ \/ (p_cfg[th].hw.conn = "eTH_HW_LOW_SIDE" /\ p_cfg[th].hw.pull_mode = "eTH_HW_PULL_UP")
       \/ (p_cfg[th].hw.conn = "eTH_HW_HIGH_SIDE" /\ p_cfg[th].hw.pull_mode = "eTH_HW_PULL_DOWN")
       \/ (p_cfg[th].hw.conn = "eTH_HW_LOW_SIDE" /\ p_cfg[th].hw.pull_mode = "eTH_HW_PULL_BOTH")
       \/ (p_cfg[th].hw.conn = "eTH_HW_HIGH_SIDE" /\ p_cfg[th].hw.pull_mode = "eTH_HW_PULL_BOTH")
    /\ p_cfg[th].range.max >= p_cfg[th].range.min

\* The condition of th_check_cfg_table on one entry
th_check_cfg_entry(p_cfg, th) ==
    /\ p_cfg[th].lpf_fc > 0
    /\ \/ (p_cfg[th].hw.conn = "eTH_HW_LOW_SIDE" /\ p_cfg[th].hw.pull_mode = "eTH_HW_PULL_UP")
       \/ (p_cfg[th].hw.conn = "eTH_HW_HIGH_SIDE" /\ p_cfg[th].hw.pull_mode = "eTH_HW_PULL_DOWN")
       \/ (p_cfg[th].hw.conn = "eTH_HW_LOW_SIDE" /\ p_cfg[th].hw.pull_mode = "eTH_HW_PULL_BOTH")
       \/ (p_cfg[th].hw.conn = "eTH_HW_HIGH_SIDE" /\ p_cfg[th].hw.pull_mode = "eTH_HW_PULL_BOTH")
    /\ p_cfg[th].range.max > p_cfg[th].range.min

\* The loop of th_check_cfg_table from entry th on: breaks at the first wrong entry
RECURSIVE th_check_cfg_loop(_, _)
th_check_cfg_loop(p_cfg, th) ==
    IF th >= eTH_NUM_OF
    THEN eTH_OK
    ELSE IF th_check_cfg_entry(p_cfg, th)
         THEN th_check_cfg_loop(p_cfg, th + 1)
         ELSE eTH_ERROR

\* th_check_cfg_table
th_check_cfg_table(p_cfg) ==
    IF p_cfg /= NULL
    THEN th_check_cfg_loop(p_cfg, 0)
    ELSE eTH_ERROR

-----------------------------------------------------------------------------
(* API *)

\* The state after the static initializers, with one of `tables` linked in
InitOver(tables) ==
    /\ gb_is_init = FALSE
    /\ gp_cfg_table = NULL
    /\ g_th_data = [th \in th_ch_t |-> ThDataZero]
    /\ cfg_table \in tables
    /\ TH_FILTER_EN \in {0, 1}
    /\ ticks = 0
    /\ last = Call("none", 0, FALSE, 0, eTH_OK, FALSE, 0)

\* The loop of th_init from channel th on, data being g_th_data as written so
\* far; lpf_fail is the first channel whose filter_rc_init fails (eTH_NUM_OF:
\* none).  Past the last channel the init has succeeded.
RECURSIVE th_init_loop(_, _, _, _)
th_init_loop(p_cfg, data, lpf_fail, th) ==
    IF th >= eTH_NUM_OF
    THEN /\ g_th_data' = data
         /\ gb_is_init' = TRUE
         /\ last' = CallInit(eTH_OK, lpf_fail)
    ELSE \E t \in th_readings(p_cfg, th) :
            LET d1 == [data EXCEPT ![th].res = t.res, ![th].temp = t.temp,
                                   ![th].temp_filt = t.temp]
                f  == th_init_filter(p_cfg, d1, th, th /= lpf_fail)
            IN  IF f.status /= eTH_OK
                THEN /\ g_th_data' = [d1 EXCEPT ![th].lpf = f.lpf]
                     /\ UNCHANGED gb_is_init
                     /\ last' = CallInit(eTH_ERROR, lpf_fail)
                ELSE th_init_loop(p_cfg, [d1 EXCEPT ![th].lpf = f.lpf], lpf_fail, th + 1)

\* th_init while gb_is_init is false
th_init_do ==
    /\ gp_cfg_table' = cfg_table
    /\ IF th_check_cfg_table(cfg_table) = eTH_OK
       THEN \E lpf_fail \in 0..eTH_NUM_OF :
                /\ (TH_FILTER_EN = 0 => lpf_fail = eTH_NUM_OF)
                /\ th_init_loop(cfg_table, g_th_data, lpf_fail, 0)
       ELSE /\ UNCHANGED <<g_th_data, gb_is_init>>
            /\ last' = CallInit(eTH_ERROR, eTH_NUM_OF)

\* th_init without the gb_is_init guard
th_init_unguarded ==
    /\ th_init_do
    /\ UNCHANGED <<cfg_table, TH_FILTER_EN, ticks>>

\* th_init
th_init ==
    /\ IF gb_is_init = FALSE
       THEN th_init_do
       ELSE /\ UNCHANGED state
            /\ last' = CallInit(eTH_OK, eTH_NUM_OF)
    /\ UNCHANGED <<cfg_table, TH_FILTER_EN, ticks>>

\* th_deinit that clears the status too
th_deinit_clears_status ==
    /\ IF gb_is_init = TRUE
       THEN /\ g_th_data' = [th \in th_ch_t |->
                                [g_th_data[th] EXCEPT !.temp = 0, !.temp_filt = 0,
                                                      !.status = eTH_OK]]
            /\ gb_is_init' = FALSE
       ELSE UNCHANGED <<g_th_data, gb_is_init>>
    /\ last' = Call("th_deinit", 0, FALSE, 0, eTH_OK, FALSE, 0)
    /\ UNCHANGED <<gp_cfg_table, cfg_table, TH_FILTER_EN, ticks>>

\* th_deinit that leaves the filtered temperature
th_deinit_keeps_filt ==
    /\ IF gb_is_init = TRUE
       THEN /\ g_th_data' = [th \in th_ch_t |-> [g_th_data[th] EXCEPT !.temp = 0]]
            /\ gb_is_init' = FALSE
       ELSE UNCHANGED <<g_th_data, gb_is_init>>
    /\ last' = Call("th_deinit", 0, FALSE, 0, eTH_OK, FALSE, 0)
    /\ UNCHANGED <<gp_cfg_table, cfg_table, TH_FILTER_EN, ticks>>

\* th_deinit
th_deinit ==
    /\ IF gb_is_init = TRUE
       THEN /\ g_th_data' = [th \in th_ch_t |->
                                [g_th_data[th] EXCEPT !.temp = 0, !.temp_filt = 0]]
            /\ gb_is_init' = FALSE
       ELSE UNCHANGED <<g_th_data, gb_is_init>>
    /\ last' = Call("th_deinit", 0, FALSE, 0, eTH_OK, FALSE, 0)
    /\ UNCHANGED <<gp_cfg_table, cfg_table, TH_FILTER_EN, ticks>>

\* th_is_init
th_is_init ==
    \E p_null \in BOOLEAN :
        /\ last' = IF ~p_null
                   THEN Call("th_is_init", 0, p_null, 0, eTH_OK, TRUE,
                             IF gb_is_init THEN 1 ELSE 0)
                   ELSE Call("th_is_init", 0, p_null, 0, eTH_ERROR, FALSE, 0)
        /\ UNCHANGED <<state, cfg_table, TH_FILTER_EN, ticks>>

\* The loop of th_hndl that stops at the first channel found faulty
RECURSIVE th_hndl_loop_break(_, _, _, _)
th_hndl_loop_break(p_cfg, data, lpf_fail, th) ==
    IF th >= eTH_NUM_OF
    THEN g_th_data' = data
    ELSE \E t \in th_readings(p_cfg, th) :
            LET lpf == IF TH_FILTER_EN = 1 /\ th /= lpf_fail
                       THEN filter_rc_hndl(data[th].lpf, t.temp)
                       ELSE data[th].lpf
                tf  == IF TH_FILTER_EN = 1
                       THEN IF th /= lpf_fail THEN lpf.y ELSE data[th].temp_filt
                       ELSE t.temp
                st  == th_status_hndl(p_cfg, data, th, tf)
            IN  th_hndl_loop_break(p_cfg,
                                   [data EXCEPT ![th].res = t.res, ![th].temp = t.temp,
                                                ![th].lpf = lpf, ![th].temp_filt = tf,
                                                ![th].status = st],
                                   lpf_fail,
                                   IF st = eTH_OK THEN th + 1 ELSE eTH_NUM_OF)

\* The loop of th_hndl from channel th on, data being g_th_data as written so
\* far; lpf_fail is the channel whose filter_rc_hndl does not return eFILTER_OK
\* and so leaves its output and its state alone (eTH_NUM_OF: none)
RECURSIVE th_hndl_loop(_, _, _, _)
th_hndl_loop(p_cfg, data, lpf_fail, th) ==
    IF th >= eTH_NUM_OF
    THEN g_th_data' = data
    ELSE \E t \in th_readings(p_cfg, th) :
            LET lpf == IF TH_FILTER_EN = 1 /\ th /= lpf_fail
                       THEN filter_rc_hndl(data[th].lpf, t.temp)
                       ELSE data[th].lpf
                tf  == IF TH_FILTER_EN = 1
                       THEN IF th /= lpf_fail THEN lpf.y ELSE data[th].temp_filt
                       ELSE t.temp
                st  == th_status_hndl(p_cfg, data, th, tf)
            IN  th_hndl_loop(p_cfg,
                             [data EXCEPT ![th].res = t.res, ![th].temp = t.temp,
                                          ![th].lpf = lpf, ![th].temp_filt = tf,
                                          ![th].status = st],
                             lpf_fail, th + 1)

\* th_hndl
th_hndl ==
    /\ IF gb_is_init = TRUE
       THEN \E lpf_fail \in 0..eTH_NUM_OF :
                /\ (TH_FILTER_EN = 0 => lpf_fail = eTH_NUM_OF)
                /\ ticks < MaxTicks
                /\ th_hndl_loop(gp_cfg_table, g_th_data, lpf_fail, 0)
                /\ ticks' = ticks + 1
                /\ last' = CallLpf(Call("th_hndl", 0, FALSE, 0, eTH_OK, FALSE, 0),
                                   lpf_fail)
       ELSE /\ UNCHANGED <<g_th_data, ticks>>
            /\ last' = Call("th_hndl", 0, FALSE, 0, eTH_ERROR, FALSE, 0)
    /\ UNCHANGED <<gb_is_init, gp_cfg_table, cfg_table, TH_FILTER_EN>>

\* Channel arguments of the API: the channels and one value past them
ThArgs == 0..eTH_NUM_OF

\* T[degF] = 1.8 * T[degC] + 32, in centi-degrees
degF(temp) == (18 * temp) \div 10 + 3200

\* T[K] = T[degC] + 273.15, in centi-degrees
kelvin(temp) == temp + TH_KELVIN_OFFSET

\* th_get_raw: adc_get_raw passes the current code of the channel through
th_get_raw ==
    \E th \in ThArgs, p_null \in BOOLEAN, adc_raw \in AdcCodes :
        /\ last' = IF gb_is_init = TRUE /\ ~p_null /\ th < eTH_NUM_OF
                   THEN Call("th_get_raw", th, p_null, 0, eTH_OK, TRUE,
                             adc_raw)
                   ELSE Call("th_get_raw", th, p_null, 0, eTH_ERROR, FALSE, 0)
        /\ UNCHANGED <<state, cfg_table, TH_FILTER_EN, ticks>>

\* th_get_degC
th_get_degC ==
    \E th \in ThArgs, p_null \in BOOLEAN :
        /\ last' = IF gb_is_init = TRUE /\ ~p_null /\ th < eTH_NUM_OF
                   THEN Call("th_get_degC", th, p_null, 0, eTH_OK, TRUE,
                             g_th_data[th].temp)
                   ELSE Call("th_get_degC", th, p_null, 0, eTH_ERROR, FALSE, 0)
        /\ UNCHANGED <<state, cfg_table, TH_FILTER_EN, ticks>>

\* th_get_degF
th_get_degF ==
    \E th \in ThArgs, p_null \in BOOLEAN :
        /\ last' = IF gb_is_init = TRUE /\ ~p_null /\ th < eTH_NUM_OF
                   THEN Call("th_get_degF", th, p_null, 0, eTH_OK, TRUE,
                             degF(g_th_data[th].temp))
                   ELSE Call("th_get_degF", th, p_null, 0, eTH_ERROR, FALSE, 0)
        /\ UNCHANGED <<state, cfg_table, TH_FILTER_EN, ticks>>

\* th_get_kelvin
th_get_kelvin ==
    \E th \in ThArgs, p_null \in BOOLEAN :
        /\ last' = IF gb_is_init = TRUE /\ ~p_null /\ th < eTH_NUM_OF
                   THEN Call("th_get_kelvin", th, p_null, 0, eTH_OK, TRUE,
                             kelvin(g_th_data[th].temp))
                   ELSE Call("th_get_kelvin", th, p_null, 0, eTH_ERROR, FALSE, 0)
        /\ UNCHANGED <<state, cfg_table, TH_FILTER_EN, ticks>>

\* th_get_resistance without the gb_is_init check
th_get_resistance_unguarded ==
    \E th \in ThArgs, p_null \in BOOLEAN :
        /\ last' = IF ~p_null /\ th < eTH_NUM_OF
                   THEN Call("th_get_resistance", th, p_null, 0, eTH_OK, TRUE,
                             g_th_data[th].res)
                   ELSE Call("th_get_resistance", th, p_null, 0, eTH_ERROR, FALSE, 0)
        /\ UNCHANGED <<state, cfg_table, TH_FILTER_EN, ticks>>

\* th_get_resistance
th_get_resistance ==
    \E th \in ThArgs, p_null \in BOOLEAN :
        /\ last' = IF gb_is_init = TRUE /\ ~p_null /\ th < eTH_NUM_OF
                   THEN Call("th_get_resistance", th, p_null, 0, eTH_OK, TRUE,
                             g_th_data[th].res)
                   ELSE Call("th_get_resistance", th, p_null, 0, eTH_ERROR, FALSE, 0)
        /\ UNCHANGED <<state, cfg_table, TH_FILTER_EN, ticks>>

\* th_get_status
th_get_status ==
    \E th \in ThArgs :
        /\ last' = IF gb_is_init = TRUE /\ th < eTH_NUM_OF
                   THEN Call("th_get_status", th, FALSE, 0, g_th_data[th].status, FALSE, 0)
                   ELSE Call("th_get_status", th, FALSE, 0, eTH_ERROR, FALSE, 0)
        /\ UNCHANGED <<state, cfg_table, TH_FILTER_EN, ticks>>

\* th_get_degC_filt (TH_FILTER_EN builds)
th_get_degC_filt ==
    \E th \in ThArgs, p_null \in BOOLEAN :
        /\ TH_FILTER_EN = 1
        /\ last' = IF gb_is_init = TRUE /\ ~p_null /\ th < eTH_NUM_OF
                   THEN Call("th_get_degC_filt", th, p_null, 0, eTH_OK, TRUE,
                             g_th_data[th].temp_filt)
                   ELSE Call("th_get_degC_filt", th, p_null, 0, eTH_ERROR, FALSE, 0)
        /\ UNCHANGED <<state, cfg_table, TH_FILTER_EN, ticks>>

\* th_get_degF_filt (TH_FILTER_EN builds)
th_get_degF_filt ==
    \E th \in ThArgs, p_null \in BOOLEAN :
        /\ TH_FILTER_EN = 1
        /\ last' = IF gb_is_init = TRUE /\ ~p_null /\ th < eTH_NUM_OF
                   THEN Call("th_get_degF_filt", th, p_null, 0, eTH_OK, TRUE,
                             degF(g_th_data[th].temp_filt))
                   ELSE Call("th_get_degF_filt", th, p_null, 0, eTH_ERROR, FALSE, 0)
        /\ UNCHANGED <<state, cfg_table, TH_FILTER_EN, ticks>>

\* th_get_kelvin_filt (TH_FILTER_EN builds)
th_get_kelvin_filt ==
    \E th \in ThArgs, p_null \in BOOLEAN :
        /\ TH_FILTER_EN = 1
        /\ last' = IF gb_is_init = TRUE /\ ~p_null /\ th < eTH_NUM_OF
                   THEN Call("th_get_kelvin_filt", th, p_null, 0, eTH_OK, TRUE,
                             kelvin(g_th_data[th].temp_filt))
                   ELSE Call("th_get_kelvin_filt", th, p_null, 0, eTH_ERROR, FALSE, 0)
        /\ UNCHANGED <<state, cfg_table, TH_FILTER_EN, ticks>>

\* th_set_lpf_fc that hands the cutoff to the filter of every channel
th_set_lpf_fc_all ==
    \E th \in ThArgs, fc \in FcArgs :
        /\ TH_FILTER_EN = 1
        /\ IF gb_is_init = TRUE /\ th < eTH_NUM_OF /\ fc > 0
           THEN /\ g_th_data' = [ch \in th_ch_t |->
                                    [g_th_data[ch] EXCEPT
                                        !.lpf = filter_rc_fc_set(g_th_data[ch].lpf, fc)]]
                /\ last' = Call("th_set_lpf_fc", th, FALSE, fc, eTH_OK, FALSE, 0)
           ELSE /\ UNCHANGED g_th_data
                /\ last' = Call("th_set_lpf_fc", th, FALSE, fc, eTH_ERROR, FALSE, 0)
        /\ UNCHANGED <<gb_is_init, gp_cfg_table, cfg_table, TH_FILTER_EN, ticks>>

\* th_set_lpf_fc (TH_FILTER_EN builds); lpf_ok: filter_rc_fc_set returns
\* eFILTER_OK, and otherwise leaves the filter alone
th_set_lpf_fc ==
    \E th \in ThArgs, fc \in FcArgs, lpf_ok \in BOOLEAN :
        /\ TH_FILTER_EN = 1
        /\ IF gb_is_init = TRUE /\ th < eTH_NUM_OF /\ fc > 0
           THEN IF lpf_ok
                THEN /\ g_th_data' = [g_th_data EXCEPT
                                         ![th].lpf = filter_rc_fc_set(g_th_data[th].lpf, fc)]
                     /\ last' = Call("th_set_lpf_fc", th, FALSE, fc, eTH_OK, FALSE, 0)
                ELSE /\ UNCHANGED g_th_data
                     /\ last' = CallLpf(Call("th_set_lpf_fc", th, FALSE, fc, eTH_ERROR,
                                             FALSE, 0), th)
           ELSE /\ lpf_ok
                /\ UNCHANGED g_th_data
                /\ last' = Call("th_set_lpf_fc", th, FALSE, fc, eTH_ERROR, FALSE, 0)
        /\ UNCHANGED <<gb_is_init, gp_cfg_table, cfg_table, TH_FILTER_EN, ticks>>

\* filter_rc_fc_get( lpf, p_fc )
filter_rc_fc_get(lpf) == lpf.fc

\* th_get_lpf_fc (TH_FILTER_EN builds); lpf_ok: filter_rc_fc_get returns
\* eFILTER_OK, and otherwise does not write *p_fc
th_get_lpf_fc ==
    \E th \in ThArgs, p_null \in BOOLEAN, lpf_ok \in BOOLEAN :
        /\ TH_FILTER_EN = 1
        /\ last' = IF gb_is_init = TRUE /\ ~p_null /\ th < eTH_NUM_OF
                   THEN IF lpf_ok
                        THEN Call("th_get_lpf_fc", th, p_null, 0, eTH_OK, TRUE,
                                  filter_rc_fc_get(g_th_data[th].lpf))
                        ELSE CallLpf(Call("th_get_lpf_fc", th, p_null, 0, eTH_OK, FALSE, 0),
                                     th)
                   ELSE Call("th_get_lpf_fc", th, p_null, 0, eTH_ERROR, FALSE, 0)
        /\ UNCHANGED <<state, cfg_table, TH_FILTER_EN, ticks>>

-----------------------------------------------------------------------------
(* Specifications *)

\* The tables of the whole-API specification: one accepted, one rejected, none
ApiCfgTables ==
    {CfgTableA, [CfgTableA EXCEPT ![1].lpf_fc = 0], NULL}

Init == InitOver(ApiCfgTables)

\* Every function of the API
Next ==
    \/ th_init
    \/ th_deinit
    \/ th_is_init
    \/ th_hndl
    \/ th_get_raw
    \/ th_get_degC
    \/ th_get_degF
    \/ th_get_kelvin
    \/ th_get_resistance
    \/ th_get_status
    \/ th_get_degC_filt
    \/ th_get_degF_filt
    \/ th_get_kelvin_filt
    \/ th_set_lpf_fc
    \/ th_get_lpf_fc

Spec == Init /\ [][Next]_vars

InitEngine == InitOver(CfgTables)

\* The functions that write the module's state, over every table
NextEngine ==
    \/ th_init
    \/ th_deinit
    \/ th_hndl
    \/ th_set_lpf_fc

SpecEngine == InitEngine /\ [][NextEngine]_vars

\* The record of one application of a function of the measuring pipeline
CallPure(op, th, adc_raw, den, rth, out) ==
    [op |-> op, th |-> th, adc_raw |-> adc_raw, den |-> den, rth |-> rth, out |-> out]

\* th_calc_res_single_pull applied to a single-pull channel of the table
calc_res_single_pull ==
    \E th \in th_ch_t, adc_raw \in PureAdcCodes :
        /\ cfg_table[th].hw.pull_mode \in {"eTH_HW_PULL_UP", "eTH_HW_PULL_DOWN"}
        /\ last' = CallPure("th_calc_res_single_pull", th, adc_raw,
                            adc_raw_plus_1U(adc_raw), 0,
                            th_calc_res_single_pull(cfg_table, th, adc_raw))
        /\ UNCHANGED <<state, cfg_table, TH_FILTER_EN, ticks>>

\* th_calc_resistance applied to a channel of the table
calc_resistance ==
    \E th \in th_ch_t, adc_raw \in PureAdcCodes :
        /\ last' = CallPure("th_calc_resistance", th, adc_raw,
                            adc_raw_plus_1U(adc_raw), 0,
                            th_calc_resistance(cfg_table, th, adc_raw))
        /\ UNCHANGED <<state, cfg_table, TH_FILTER_EN, ticks>>

\* th_calc_pt100_temperature applied to a resistance
calc_pt100_temperature ==
    \E k \in RtdPercents :
        /\ last' = CallPure("th_calc_pt100_temperature", 0, 0, 0, 100 * k,
                            th_calc_pt100_temperature(100 * k))
        /\ UNCHANGED <<state, cfg_table, TH_FILTER_EN, ticks>>

\* th_calc_pt500_temperature applied to a resistance
calc_pt500_temperature ==
    \E k \in RtdPercents :
        /\ last' = CallPure("th_calc_pt500_temperature", 0, 0, 0, 500 * k,
                            th_calc_pt500_temperature(500 * k))
        /\ UNCHANGED <<state, cfg_table, TH_FILTER_EN, ticks>>

\* th_calc_pt1000_temperature applied to a resistance
calc_pt1000_temperature ==
    \E k \in RtdPercents :
        /\ last' = CallPure("th_calc_pt1000_temperature", 0, 0, 0, 1000 * k,
                            th_calc_pt1000_temperature(1000 * k))
        /\ UNCHANGED <<state, cfg_table, TH_FILTER_EN, ticks>>

InitPipeline == InitOver(ValidCfgTables)

\* The functions of the measuring pipeline, each on its own
NextPipeline ==
    \/ calc_res_single_pull
    \/ calc_resistance
    \/ calc_pt100_temperature
    \/ calc_pt500_temperature
    \/ calc_pt1000_temperature

SpecPipeline == InitPipeline /\ [][NextPipeline]_vars

-----------------------------------------------------------------------------
(* Properties *)

IsNtc(e) == e.type = "eTH_TYPE_NTC"

IsRtd(e) == e.type \in {"eTH_TYPE_PT100", "eTH_TYPE_PT500", "eTH_TYPE_PT1000"}

\* The step is a th_hndl tick of the initialized module
Tick == gb_is_init /\ last'.op = "th_hndl" /\ ticks' = ticks + 1

\* C1: a channel with the PERMANENT error policy whose status is not OK does not
\* have status OK after a th_hndl tick (th_deinit is no tick, so every tick of
\* the initialized module keeps a latched fault).
C1_PermanentLatched ==
    [][Tick =>
        \A th \in th_ch_t :
            (/\ gp_cfg_table[th].err_type = "eTH_ERR_PERMANENT"
             /\ g_th_data[th].status /= eTH_OK)
            => g_th_data'[th].status /= eTH_OK]_vars

\* C2: after a th_hndl tick the status of every FLOATING channel is decided by
\* that tick's filtered temperature and the channel's range alone: OK exactly
\* when range.min <= T_f <= range.max, whatever the status was before.
C2_FloatingIsCurrent ==
    (last.op = "th_hndl" /\ last.ret = eTH_OK) =>
        \A th \in th_ch_t :
            gp_cfg_table[th].err_type = "eTH_ERR_FLOATING" =>
                /\ (g_th_data[th].status = eTH_OK) <=>
                      /\ gp_cfg_table[th].range.min <= g_th_data[th].temp_filt
                      /\ g_th_data[th].temp_filt <= gp_cfg_table[th].range.max
                /\ g_th_data[th].status \in {eTH_OK, eTH_ERROR_OPEN, eTH_ERROR_SHORT}

\* C2 witness: a FLOATING NTC channel is OK after the second tick with T_f back
\* in range, and the filter output of the first tick, 2 * T_f - T at the default
\* cutoff (alpha = 1/2), was above range.max.
C2_Witness ==
    /\ last.op = "th_hndl" /\ last.ret = eTH_OK /\ ticks = 2 /\ TH_FILTER_EN = 1
    /\ \E th \in th_ch_t :
          /\ gp_cfg_table[th].err_type = "eTH_ERR_FLOATING"
          /\ IsNtc(gp_cfg_table[th])
          /\ g_th_data[th].lpf.fc = LPF_FC_UNIT
          /\ g_th_data[th].status = eTH_OK
          /\ g_th_data[th].temp_filt <= gp_cfg_table[th].range.max
          /\ g_th_data[th].temp_filt >= gp_cfg_table[th].range.min
          /\ 2 * g_th_data[th].temp_filt - g_th_data[th].temp - 1
                > gp_cfg_table[th].range.max

\* C3: on a tick where the classifier evaluates (FLOATING channel, or PERMANENT
\* channel whose status is OK), the new status is, for NTC, ERROR_SHORT above
\* range.max and ERROR_OPEN below range.min; for PT100/PT500/PT1000, ERROR_OPEN
\* above range.max and ERROR_SHORT below range.min; and OK on the closed interval.
C3_Polarity ==
    [][Tick =>
        \A th \in th_ch_t :
            LET e  == gp_cfg_table[th]
                tf == g_th_data'[th].temp_filt
                st == g_th_data'[th].status
            IN  (\/ e.err_type = "eTH_ERR_FLOATING"
                 \/ (e.err_type = "eTH_ERR_PERMANENT" /\ g_th_data[th].status = eTH_OK))
                =>
                /\ (IsNtc(e) /\ tf > e.range.max) => st = eTH_ERROR_SHORT
                /\ (IsNtc(e) /\ tf < e.range.min) => st = eTH_ERROR_OPEN
                /\ (IsRtd(e) /\ tf > e.range.max) => st = eTH_ERROR_OPEN
                /\ (IsRtd(e) /\ tf < e.range.min) => st = eTH_ERROR_SHORT
                /\ (e.range.min <= tf /\ tf <= e.range.max) => st = eTH_OK]_vars

\* C3 witness: after a tick an RTD channel above range.max is ERROR_OPEN and an
\* NTC channel whose T_f equals range.max is OK.
C3_Witness ==
    /\ last.op = "th_hndl" /\ last.ret = eTH_OK
    /\ \E th \in th_ch_t :
          /\ IsRtd(gp_cfg_table[th])
          /\ g_th_data[th].temp_filt > gp_cfg_table[th].range.max
          /\ g_th_data[th].status = eTH_ERROR_OPEN
    /\ \E th \in th_ch_t :
          /\ IsNtc(gp_cfg_table[th])
          /\ g_th_data[th].temp_filt = gp_cfg_table[th].range.max
          /\ g_th_data[th].status = eTH_OK

\* The functions C4 names, th_is_init apart
CheckedOps ==
    {"th_hndl", "th_get_raw", "th_get_degC", "th_get_degF", "th_get_kelvin",
     "th_get_degC_filt", "th_get_degF_filt", "th_get_kelvin_filt",
     "th_get_resistance", "th_get_status", "th_set_lpf_fc", "th_get_lpf_fc"}

\* The call of the step breaks a precondition: module not initialized, channel
\* index >= eTH_NUM_OF, or output pointer NULL
BadCall ==
    \/ ~gb_is_init
    \/ last'.th >= eTH_NUM_OF
    \/ last'.p_null

\* The call returned ERROR, wrote no output and changed no module state
Rejected == last'.ret = eTH_ERROR /\ ~last'.written /\ UNCHANGED state

\* C4 as stated: every API function other than th_init/th_deinit, th_is_init
\* included, returns ERROR on a broken precondition, writes no output and changes
\* no module state.
C4_Original ==
    [][(last'.op \in CheckedOps \cup {"th_is_init"} /\ BadCall) => Rejected]_vars

\* C4 amended: the same for every function but th_is_init; th_is_init does not
\* require the module to be initialized: it is rejected exactly when its output
\* pointer is NULL, and otherwise returns OK and writes the flag; it never
\* changes module state.
C4_PreconditionErrors ==
    [][/\ (last'.op \in CheckedOps /\ BadCall) => Rejected
       /\ (last'.op = "th_is_init") =>
             /\ UNCHANGED state
             /\ IF last'.p_null
                THEN Rejected
                ELSE /\ last'.ret = eTH_OK
                     /\ last'.written
                     /\ last'.out = (IF gb_is_init THEN 1 ELSE 0)]_vars

\* C4 witness: on the initialized module, after a tick, a filtered getter was
\* called with a channel index past the last channel and returned ERROR.
C4_Witness ==
    /\ gb_is_init /\ ticks > 0
    /\ last.op = "th_get_degC_filt" /\ last.th = eTH_NUM_OF /\ ~last.p_null
    /\ last.ret = eTH_ERROR /\ ~last.written

\* C5: th_init on the initialized module returns OK and changes neither the
\* flag, nor the table pointer, nor any channel's data (filter state included).
C5_InitIdempotent ==
    [][(last'.op = "th_init" /\ gb_is_init) =>
          /\ last'.ret = eTH_OK
          /\ UNCHANGED <<gb_is_init, gp_cfg_table, g_th_data>>]_vars

\* C5 witness: th_init has returned on the initialized module and a channel's
\* filtered temperature differs from its temperature, which a th_init that
\* seeded the channel would have made equal.
C5_Witness ==
    /\ last.op = "th_init" /\ last.ret = eTH_OK /\ gb_is_init /\ ticks > 0
    /\ \E th \in th_ch_t : g_th_data[th].temp_filt /= g_th_data[th].temp

\* C6 as stated: a th_init that returns ERROR leaves the flag false and every
\* channel's resistance, temperatures and filter state as they were.
C6_NoPartialInit ==
    [][(last'.op = "th_init" /\ last'.ret = eTH_ERROR) =>
          /\ gb_is_init' = FALSE
          /\ \A th \in th_ch_t :
                /\ g_th_data'[th].res = g_th_data[th].res
                /\ g_th_data'[th].temp = g_th_data[th].temp
                /\ g_th_data'[th].temp_filt = g_th_data[th].temp_filt
                /\ g_th_data'[th].lpf = g_th_data[th].lpf]_vars

\* What C7 requires of a table, from the claim's words
CfgAccepted(tbl) ==
    /\ tbl /= NULL
    /\ \A th \in th_ch_t :
          /\ tbl[th].lpf_fc > 0
          /\ tbl[th].range.max > tbl[th].range.min
          /\ <<tbl[th].hw.conn, tbl[th].hw.pull_mode>> \in
                { <<"eTH_HW_LOW_SIDE", "eTH_HW_PULL_UP">>,
                  <<"eTH_HW_HIGH_SIDE", "eTH_HW_PULL_DOWN">>,
                  <<"eTH_HW_LOW_SIDE", "eTH_HW_PULL_BOTH">>,
                  <<"eTH_HW_HIGH_SIDE", "eTH_HW_PULL_BOTH">> }

\* C7: after th_init, a table that is NULL or has an entry with f_c <= 0,
\* T_max <= T_min or a side/pull combination outside the four allowed has made
\* it return ERROR with the module left uninitialized; every other table has
\* been accepted, so that th_init returned OK unless a filter_rc_init failed.
C7_CfgValidation ==
    last.op = "th_init" =>
        /\ ~CfgAccepted(cfg_table) => (last.ret = eTH_ERROR /\ ~gb_is_init)
        /\ (CfgAccepted(cfg_table) /\ last.lpf_fail = eTH_NUM_OF) =>
              (last.ret = eTH_OK /\ gb_is_init)

\* C7 witness: th_init returned ERROR for a table whose entry 0 is right and
\* whose entry 1 alone is wrong, by T_max = T_min.
C7_Witness ==
    /\ last.op = "th_init" /\ last.ret = eTH_ERROR
    /\ cfg_table /= NULL
    /\ cfg_table[0] = CfgTableA[0]
    /\ cfg_table[1].range.max = cfg_table[1].range.min
    /\ cfg_table[1].lpf_fc > 0
    /\ cfg_table[1].hw = CfgTableA[1].hw

\* C8: while the module is initialized every channel's resistance lies within
\* the limits of its sensor class: NTC 1 .. 1e7 Ohm, PT100 18.52 .. 390.48 Ohm,
\* PT500 114.13 .. 1937.74 Ohm, PT1000 185.20 .. 3904.81 Ohm.
C8_ResistanceLimited ==
    gb_is_init =>
        \A th \in th_ch_t :
            LET type == gp_cfg_table[th].type
                res  == g_th_data[th].res
            IN  /\ type = "eTH_TYPE_NTC" => (100 <= res /\ res <= 1000000000)
                /\ type = "eTH_TYPE_PT100" => (1852 <= res /\ res <= 39048)
                /\ type = "eTH_TYPE_PT500" => (11413 <= res /\ res <= 193774)
                /\ type = "eTH_TYPE_PT1000" => (18520 <= res /\ res <= 390481)

\* C8 witness: after a tick a channel with both pulls holds the lower limit of
\* its class and an NTC channel holds 1 MOhm, inside its limits.
C8_Witness ==
    /\ gb_is_init /\ ticks > 0
    /\ \E th \in th_ch_t :
          /\ gp_cfg_table[th].hw.pull_mode = "eTH_HW_PULL_BOTH"
          /\ gp_cfg_table[th].type = "eTH_TYPE_PT100"
          /\ g_th_data[th].res = 1852
    /\ \E th \in th_ch_t :
          /\ gp_cfg_table[th].type = "eTH_TYPE_NTC"
          /\ g_th_data[th].res = 100000000

\* The query API and the tick handler
QueryOps ==
    {"th_get_raw", "th_get_degC", "th_get_degF", "th_get_kelvin",
     "th_get_degC_filt", "th_get_degF_filt", "th_get_kelvin_filt",
     "th_get_resistance", "th_get_status", "th_set_lpf_fc", "th_get_lpf_fc"}

\* What C9 says of th_deinit itself, and that only a th_init returning OK sets
\* the flag again
DeinitEffect ==
    /\ (last'.op = "th_deinit") =>
          /\ last'.ret = eTH_OK
          /\ IF gb_is_init
             THEN /\ \A th \in th_ch_t :
                        g_th_data'[th].temp = 0 /\ g_th_data'[th].temp_filt = 0
                  /\ gb_is_init' = FALSE
             ELSE UNCHANGED state
    /\ (~gb_is_init /\ gb_is_init') => (last'.op = "th_init" /\ last'.ret = eTH_OK)

\* C9 as stated: th_deinit as above, and while the module is not initialized
\* every query, th_is_init included, and th_hndl return ERROR.
C9_Original ==
    [][/\ DeinitEffect
       /\ (~gb_is_init /\ last'.op \in QueryOps \cup {"th_hndl", "th_is_init"})
             => last'.ret = eTH_ERROR]_vars

\* C9 amended: th_deinit as above, and while the module is not initialized
\* every query other than th_is_init, and th_hndl, return ERROR.
C9_Deinit ==
    [][/\ DeinitEffect
       /\ (~gb_is_init /\ last'.op \in QueryOps \cup {"th_hndl"})
             => last'.ret = eTH_ERROR]_vars

\* C9 witness: after a tick and a th_deinit (temperatures 0, resistance kept)
\* a getter returned ERROR.
C9_Witness ==
    /\ ~gb_is_init /\ ticks > 0
    /\ \A th \in th_ch_t :
          /\ g_th_data[th].temp = 0 /\ g_th_data[th].temp_filt = 0
          /\ g_th_data[th].res /= 0
    /\ last.op = "th_get_degC" /\ last.th = 0 /\ ~last.p_null
    /\ last.ret = eTH_ERROR

\* C10: only a th_hndl step changes a channel's status, and th_get_status on the
\* initialized module returns the stored status of its channel.
C10_StatusOwner ==
    [][/\ (last'.op /= "th_hndl") =>
             \A th \in th_ch_t : g_th_data'[th].status = g_th_data[th].status
       /\ (last'.op = "th_get_status" /\ gb_is_init /\ last'.th < eTH_NUM_OF) =>
             last'.ret = g_th_data[last'.th].status]_vars

\* C10 witness: after a tick th_get_status returned the fault stored for its
\* channel.
C10_Witness ==
    /\ gb_is_init /\ ticks > 0
    /\ last.op = "th_get_status" /\ last.th < eTH_NUM_OF
    /\ last.ret \in {eTH_ERROR_OPEN, eTH_ERROR_SHORT}
    /\ last.ret = g_th_data[last.th].status

\* C11 as stated: a th_init that initializes the module (the one after a
\* th_deinit included) leaves every PERMANENT channel with status OK, so that
\* th_get_status returns OK before the first tick and the classifier evaluates
\* on that tick.
C11_ReinitResetsFault ==
    [][(last'.op = "th_init" /\ ~gb_is_init /\ gb_is_init') =>
          \A th \in th_ch_t :
              gp_cfg_table'[th].err_type = "eTH_ERR_PERMANENT" =>
                  g_th_data'[th].status = eTH_OK]_vars

\* C12: every th_hndl tick of the initialized module returns OK and updates
\* every channel, whatever the other channels read: R_th and T are a reading of
\* the channel, T_f is T (filter disabled), the filter's new output, or the old
\* T_f where the filter step failed, and the status is what th_status_hndl gives
\* for that T_f and the status before the tick.
C12_NoShortCircuit ==
    [][Tick =>
        /\ last'.ret = eTH_OK
        /\ \A th \in th_ch_t :
              /\ \E t \in th_readings(gp_cfg_table, th) :
                    /\ g_th_data'[th].res = t.res
                    /\ g_th_data'[th].temp = t.temp
              /\ g_th_data'[th].temp_filt =
                    IF TH_FILTER_EN = 0
                    THEN g_th_data'[th].temp
                    ELSE IF th = last'.lpf_fail
                         THEN g_th_data[th].temp_filt
                         ELSE filter_rc_hndl(g_th_data[th].lpf, g_th_data'[th].temp).y
              /\ g_th_data'[th].status =
                    th_status_hndl(gp_cfg_table, g_th_data, th,
                                   g_th_data'[th].temp_filt)]_vars

\* C12 witness: the only tick so far found a fault on channel 0 and has
\* processed the last channel all the same: its status, OK since the static
\* initializer, is a fault too.
C12_Witness ==
    /\ gb_is_init /\ ticks = 1
    /\ last.op = "th_hndl" /\ last.ret = eTH_OK
    /\ g_th_data[0].status /= eTH_OK
    /\ g_th_data[eTH_NUM_OF - 1].status /= eTH_OK

\* C13 as stated: for an NTC channel on the low side with a 10 kOhm pull-up,
\* the ADC code C_max/2 - 1 resolves to a resistance of 10 kOhm (within 1 %).
C13_MidScale ==
    (/\ last.op = "th_calc_resistance"
     /\ cfg_table[last.th].type = "eTH_TYPE_NTC"
     /\ cfg_table[last.th].hw.conn = "eTH_HW_LOW_SIDE"
     /\ cfg_table[last.th].hw.pull_mode = "eTH_HW_PULL_UP"
     /\ cfg_table[last.th].hw.pull_up = 1000000
     /\ last.adc_raw = ADC_RAW_MAX \div 2 - 1)
    => (990000 <= last.out /\ last.out <= 1010000)


\* C14 as stated: whenever a call of the low-pass filter made by th_hndl,
\* th_set_lpf_fc, th_get_lpf_fc or th_init returns a status other than
\* eFILTER_OK, the calling function returns eTH_ERROR.
C14_LpfErrorPropagates ==
    (/\ last.op \in {"th_hndl", "th_set_lpf_fc", "th_get_lpf_fc", "th_init"}
     /\ last.lpf_fail < eTH_NUM_OF)
    => last.ret = eTH_ERROR


\* C15: th_set_lpf_fc(ch, f) with f > 0 that returns eTH_OK stores f as the
\* cutoff of channel ch and leaves every other channel alone, so that a
\* following th_get_lpf_fc(ch) delivers f; with f <= 0 it returns eTH_ERROR and
\* changes no channel; th_get_lpf_fc delivers the stored cutoff of the channel.
C15_FcRoundTrip ==
    [][/\ (last'.op = "th_set_lpf_fc" /\ last'.ret = eTH_OK) =>
              /\ last'.fc > 0
              /\ filter_rc_fc_get(g_th_data'[last'.th].lpf) = last'.fc
              /\ \A ch \in th_ch_t \ {last'.th} : g_th_data'[ch] = g_th_data[ch]
       /\ (last'.op = "th_set_lpf_fc" /\ last'.fc <= 0) =>
              /\ last'.ret = eTH_ERROR
              /\ g_th_data' = g_th_data
       /\ (last'.op = "th_get_lpf_fc" /\ last'.written) =>
              /\ last'.ret = eTH_OK
              /\ last'.out = g_th_data[last'.th].lpf.fc
              /\ (last.op = "th_set_lpf_fc" /\ last.ret = eTH_OK /\ last.th = last'.th)
                     => last'.out = last.fc
      ]_vars

\* C15 witness: th_get_lpf_fc delivered the cutoff set on one channel while
\* another channel still has the cutoff of its configuration
C15_Witness ==
    /\ last.op = "th_get_lpf_fc" /\ last.written /\ last.out = 3
    /\ \E ch \in th_ch_t \ {last.th} :
           /\ g_th_data[ch].lpf.fc = gp_cfg_table[ch].lpf_fc
           /\ g_th_data[ch].lpf.fc /= 3


\* C16: each RTD conversion applied to the nominal resistance of its class
\* (100, 500, 1000 Ohm) gives 0 degC.
C16_RtdZeroAtNominal ==
    /\ (last.op = "th_calc_pt100_temperature" /\ last.rth = 10000) => last.out = 0
    /\ (last.op = "th_calc_pt500_temperature" /\ last.rth = 50000) => last.out = 0
    /\ (last.op = "th_calc_pt1000_temperature" /\ last.rth = 100000) => last.out = 0

\* C16 witness: the PT500 conversion was applied to 500 Ohm
C16_Witness ==
    /\ last.op = "th_calc_pt500_temperature"
    /\ last.rth = 50000
    /\ last.out = 0


\* C17: for every 16-bit ADC code the divisor adc_raw + 1 of the ratio is the
\* code plus one, never zero; at code 65535 it is 65536, so the ratio is below
\* one and the divider formula gives a negative resistance.
C17_DivisorNeverZero ==
    last.op \in {"th_calc_res_single_pull", "th_calc_resistance"} =>
        /\ last.adc_raw \in 0..UINT16_MAX
        /\ last.den /= 0
        /\ last.den = last.adc_raw + 1
        /\ (last.op = "th_calc_res_single_pull" /\ last.adc_raw = UINT16_MAX)
               => last.out < 0

\* C17 witness: the divider was resolved for the code 65535
C17_Witness ==
    /\ last.op = "th_calc_res_single_pull"
    /\ last.adc_raw = UINT16_MAX
    /\ last.den = UINT16_MAX + 1
    /\ last.out < 0


\* C18: a th_init that succeeds leaves every channel with temp_filt = temp = a
\* temperature converted from an ADC code, and (filter builds) a filter
\* initialized with the configured cutoff and that temperature as its value;
\* th_set_lpf_fc, the only other call before the first tick, changes none of
\* them; with TH_FILTER_EN = 0, temp_filt = temp in every state.
C18_InitSeedsFilter ==
    /\ [](TH_FILTER_EN = 0 => \A th \in th_ch_t : g_th_data[th].temp_filt = g_th_data[th].temp)
    /\ [][/\ (last'.op = "th_init" /\ ~gb_is_init /\ gb_is_init') =>
                 \A th \in th_ch_t :
                     /\ \E t \in th_readings(gp_cfg_table', th) :
                            /\ g_th_data'[th].temp = t.temp
                            /\ g_th_data'[th].res = t.res
                     /\ g_th_data'[th].temp_filt = g_th_data'[th].temp
                     /\ TH_FILTER_EN = 1 =>
                            /\ g_th_data'[th].lpf.is_init
                            /\ g_th_data'[th].lpf.y = g_th_data'[th].temp
                            /\ g_th_data'[th].lpf.fc = gp_cfg_table'[th].lpf_fc
          /\ last'.op = "th_set_lpf_fc" =>
                 \A th \in th_ch_t :
                     /\ g_th_data'[th].temp = g_th_data[th].temp
                     /\ g_th_data'[th].temp_filt = g_th_data[th].temp_filt
                     /\ g_th_data'[th].lpf.y = g_th_data[th].lpf.y
         ]_vars

\* C18 witness: th_init has just succeeded in a filter build, with nonzero
\* temperatures in every channel and its filter
C18_Witness ==
    /\ TH_FILTER_EN = 1
    /\ last.op = "th_init" /\ last.ret = eTH_OK /\ gb_is_init
    /\ \A th \in th_ch_t :
           /\ g_th_data[th].temp /= 0
           /\ g_th_data[th].temp_filt = g_th_data[th].temp
           /\ g_th_data[th].lpf.y = g_th_data[th].temp


\* The resistance limits of a sensor class in centi-ohm: NTC 1 .. 1e7 Ohm,
\* PT100 18.52 .. 390.48, PT500 114.13 .. 1937.74, PT1000 185.20 .. 3904.81
ClassMin(type) ==
    CASE type = "eTH_TYPE_NTC" -> 100
      [] type = "eTH_TYPE_PT100" -> 1852
      [] type = "eTH_TYPE_PT500" -> 11413
      [] type = "eTH_TYPE_PT1000" -> 18520

ClassMax(type) ==
    CASE type = "eTH_TYPE_NTC" -> 1000000000
      [] type = "eTH_TYPE_PT100" -> 39048
      [] type = "eTH_TYPE_PT500" -> 193774
      [] type = "eTH_TYPE_PT1000" -> 390481

\* LOW side with pull-up or HIGH side with pull-down
SinglePull(th) ==
    \/ /\ cfg_table[th].hw.conn = "eTH_HW_LOW_SIDE"
       /\ cfg_table[th].hw.pull_mode = "eTH_HW_PULL_UP"
    \/ /\ cfg_table[th].hw.conn = "eTH_HW_HIGH_SIDE"
       /\ cfg_table[th].hw.pull_mode = "eTH_HW_PULL_DOWN"

\* C19: the limited resistance of a single-pull channel does not depend on the
\* ADC code below C_max: a low-side channel gives min(1 MOhm, upper limit of
\* the class), a high-side channel the lower limit of the class; from C_max on
\* both give the lower limit of the class.
C19_SinglePullCodeBlind ==
    (last.op = "th_calc_resistance" /\ SinglePull(last.th)) =>
        LET type == cfg_table[last.th].type
            low  == cfg_table[last.th].hw.conn = "eTH_HW_LOW_SIDE"
        IN  IF last.adc_raw < ADC_RAW_MAX
            THEN IF low
                 THEN last.out = IF ClassMax(type) < 100000000
                                 THEN ClassMax(type) ELSE 100000000
                 ELSE last.out = ClassMin(type)
            ELSE last.out = ClassMin(type)

\* C19 witness: a high-side channel resolved to the lower limit of its class
\* at mid-scale, in a table whose other channel is a low-side NTC
C19_Witness ==
    /\ last.op = "th_calc_resistance" /\ SinglePull(last.th)
    /\ cfg_table[last.th].hw.conn = "eTH_HW_HIGH_SIDE"
    /\ last.adc_raw = ADC_RAW_MAX \div 2
    /\ last.out = ClassMin(cfg_table[last.th].type)
    /\ \E th \in th_ch_t : /\ SinglePull(th)
                           /\ cfg_table[th].hw.conn = "eTH_HW_LOW_SIDE"
                           /\ cfg_table[th].type = "eTH_TYPE_NTC"


\* C20: the stored status of every channel is eTH_OK, eTH_ERROR_OPEN or
\* eTH_ERROR_SHORT in every state, and th_get_status returns eTH_ERROR exactly
\* when the module is not initialized or the channel is not below eTH_NUM_OF.
C20_StatusDomain ==
    /\ \A th \in th_ch_t :
           g_th_data[th].status \in {eTH_OK, eTH_ERROR_OPEN, eTH_ERROR_SHORT}
    /\ last.op = "th_get_status" =>
           (last.ret = eTH_ERROR <=> (~gb_is_init \/ last.th >= eTH_NUM_OF))

\* C20 witness: th_get_status of an initialized module returned the fault
\* stored for a valid channel
C20_Witness ==
    /\ last.op = "th_get_status"
    /\ gb_is_init /\ last.th < eTH_NUM_OF
    /\ g_th_data[last.th].status /= eTH_OK
    /\ last.ret = g_th_data[last.th].status

=============================================================================
